---- MODULE Spec2Model ----
(***************************************************************************)
(* Profile card widget: ApiService (js/apiService.js), DomManager          *)
(* (js/domManager.js) and the ProfileCardApp controller (js/app.js).       *)
(*                                                                         *)
(* JavaScript values are tagged records, so that null, undefined, strings  *)
(* and numbers stay distinct and `||` / truthiness is computed as the      *)
(* language computes it.  Error objects are records [name, message].       *)
(* Strings are TLA+ strings; includes() and trim() work on characters.     *)
(***************************************************************************)
EXTENDS Integers, Sequences, FiniteSets, Bags, TLC

VARIABLES app, dom, pending, destroyed, last, rt, fd, page, anim

vars == <<app, dom, pending, destroyed, last, rt, fd, page, anim>>

(***************************************************************************)
(* Bounds of the model.                                                    *)
(***************************************************************************)
\* how many fetches may be in flight at once before the model stops issuing more
MaxInFlight == 2
\* largest maxRetries argument given to fetchUserWithRetry
MaxAttempts == 4
\* DomManager panel calls made in a row
MaxCalls == 4
\* animateNumber calls made on the element
MaxAnimations == 3

(***************************************************************************)
(* JavaScript values.                                                      *)
(***************************************************************************)
Null == [t |-> "null"]
Undefined == [t |-> "undefined"]
Str(s) == [t |-> "string", s |-> s]
Num(n) == [t |-> "number", n |-> n]

IsString(x) == x.t = "string"

\* ToBoolean: null, undefined, "" and 0 are falsy; an object (t = "object") is truthy
Truthy(x) ==
  CASE x.t = "null" -> FALSE
    [] x.t = "undefined" -> FALSE
    [] x.t = "string" -> x.s # ""
    [] x.t = "number" -> x.n # 0
    [] OTHER -> TRUE

\* a ?? b: only null and undefined fall back
JsOrNullish(a, b) == IF a.t \in {"null", "undefined"} THEN b ELSE a

\* a || b
JsOr(a, b) == IF Truthy(a) THEN a ELSE b

\* String.prototype.includes
includes(s, p) ==
  \E i \in 1..(Len(s) - Len(p) + 1) : SubSeq(s, i, i + Len(p) - 1) = p

RECURSIVE trimStart(_)
trimStart(s) ==
  IF Len(s) > 0 /\ SubSeq(s, 1, 1) = " " THEN trimStart(SubSeq(s, 2, Len(s))) ELSE s

RECURSIVE trimEnd(_)
trimEnd(s) ==
  IF Len(s) > 0 /\ SubSeq(s, Len(s), Len(s)) = " "
  THEN trimEnd(SubSeq(s, 1, Len(s) - 1))
  ELSE s

\* String.prototype.trim (the inputs of the model use the space as whitespace)
trim(s) == trimEnd(trimStart(s))

\* new Error(message)
Error(message) == [name |-> "Error", message |-> message]

(***************************************************************************)
(* ApiService                                                             *)
(***************************************************************************)
\* this.usernames: the head of the candidate list (the list is configuration
\* data; no operation depends on which handles follow).  A second handle
\* enters through loadUser
usernames == <<"octocat">>

\* getRandomUsername: Math.random() may select any index of the list
getRandomUsername == {usernames[i] : i \in 1..Len(usernames)}

\* processUserData(data): data is the parsed JSON object
processUserData(data) ==
  [t |-> "object",
   id |-> data.id,
   username |-> data.login,
   name |-> JsOr(data.name, data.login),
   avatar |-> data.avatar_url,
   bio |-> JsOr(data.bio, Str("No bio available")),
   location |-> JsOr(data.location, Str("Location not specified")),
   email |-> JsOr(data.email, Null),
   company |-> JsOr(data.company, Null),
   blog |-> JsOr(data.blog, Null),
   followers |-> JsOr(data.followers, Num(0)),
   following |-> JsOr(data.following, Num(0)),
   publicRepos |-> JsOr(data.public_repos, Num(0)),
   joinDate |-> data.created_at,
   htmlUrl |-> data.html_url]

\* handleHttpError(status): the Error it throws
handleHttpError(status) ==
  CASE status = 404 -> Error("User not found. Please try again.")
    [] status = 403 -> Error("API rate limit exceeded. Please try again later.")
    [] status = 500 -> Error("Server error. Please try again later.")
    [] OTHER -> Error("HTTP error! status: " \o ToString(status))

\* handleNetworkError(error): the error it throws
handleNetworkError(error) ==
  IF error.name = "TypeError" /\ includes(error.message, "fetch")
  THEN Error("Network error. Please check your internet connection.")
  ELSE error

\* isValidUsername without the trim() of the handle
isValidUsernameNoTrim(username) ==
  Truthy(username) /\ IsString(username) /\ Len(username.s) > 0

\* isValidUsername(username), as a boolean (the code returns a truthy/falsy value)
isValidUsername(username) ==
  Truthy(username) /\ IsString(username) /\ Len(trim(username.s)) > 0

\* response.ok
ResponseOk(status) == status \in 200..299

(***************************************************************************)
(* The network: what one fetch() call may settle with.                     *)
(*   [type |-> "response", status, body]  the promise resolves             *)
(*   [type |-> "reject", error]           the transport throws             *)
(* body is "json" (a user object), or "invalid" (response.json() rejects   *)
(* with a SyntaxError), or "raw" (the user object is the field data), or   *)
(* "null" (the JSON text null).                                            *)
(***************************************************************************)
\* the JSON object the API returns for a login; sparse = optional fields null
RawUser(login, sparse) ==
  [id |-> Num(583231),
   login |-> Str(login),
   name |-> IF sparse THEN Null ELSE Str("The " \o login),
   avatar_url |-> Str("https://avatars.githubusercontent.com/" \o login),
   bio |-> IF sparse THEN Null ELSE Str("bio of " \o login),
   location |-> IF sparse THEN Null ELSE Str("San Francisco"),
   email |-> IF sparse THEN Null ELSE Str(login \o "@github.com"),
   company |-> IF sparse THEN Str("") ELSE Str("@github"),
   blog |-> IF sparse THEN Str("") ELSE Str("https://github.blog"),
   followers |-> IF sparse THEN Num(0) ELSE Num(42),
   following |-> IF sparse THEN Num(0) ELSE Num(9),
   public_repos |-> IF sparse THEN Num(0) ELSE Num(8),
   created_at |-> Str("2011-01-25T18:44:36Z"),
   html_url |-> Str("https://github.com/" \o login)]

Response(status, kind, sparse) ==
  [type |-> "response", status |-> status, body |-> kind, sparse |-> sparse]
Reject(name, message) ==
  [type |-> "reject", error |-> [name |-> name, message |-> message]]

\* error objects a transport throws from fetch(): Chrome, Safari, an abort
TransportErrors ==
  {Reject("TypeError", "Failed to fetch"),
   Reject("TypeError", "Load failed"),
   Reject("AbortError", "The user aborted a request.")}

ErrorStatuses == {301, 403, 404, 500, 503}

NetOutcomes ==
  {Response(200, "json", FALSE), Response(200, "json", TRUE),
   Response(200, "invalid", FALSE)}
  \cup {Response(s, "json", FALSE) : s \in ErrorStatuses}
  \cup TransportErrors

\* fetchUserData(username) once its fetch() has settled with outcome o:
\* [ok |-> TRUE, value] when it returns, [ok |-> FALSE, error] when it throws
fetchUserData(username, o) ==
  IF o.type = "reject"
  THEN [ok |-> FALSE, error |-> handleNetworkError(o.error)]
  ELSE IF ~ResponseOk(o.status)
  THEN [ok |-> FALSE, error |-> handleNetworkError(handleHttpError(o.status))]
  ELSE IF o.body = "invalid"
  THEN [ok |-> FALSE,
        error |-> handleNetworkError(
                    [name |-> "SyntaxError", message |-> "Unexpected end of JSON input"])]
  ELSE IF o.body = "null"
  THEN [ok |-> FALSE,
        error |-> handleNetworkError(
                    [name |-> "TypeError",
                     message |-> "Cannot read properties of null (reading 'id')"])]
  ELSE IF o.body = "raw"
  THEN [ok |-> TRUE, value |-> processUserData(o.data)]
  ELSE [ok |-> TRUE, value |-> processUserData(RawUser(username, o.sparse))]

(***************************************************************************)
(* ApiService.fetchUserData(username) called on its own.                   *)
(*                                                                         *)
(* fd is one call of it:                                                   *)
(*   pc        "idle" | "fetching" (awaiting fetch()) | "returned" |       *)
(*             "raised"                                                    *)
(*   username  the argument, any JavaScript value                          *)
(*   netCalls  the fetch() calls made                                      *)
(*   o         the outcome the fetch() settled with                        *)
(*   result    the value returned or the error thrown                      *)
(***************************************************************************)
FetchIdle ==
  [pc |-> "idle", username |-> Undefined, netCalls |-> 0,
   o |-> [type |-> "none"], result |-> Undefined]

\* values the API gives a text field / a count: null, absent, empty, present
TextFieldValues == {Null, Undefined, Str(""), Str("text")}
CountFieldValues == {Null, Undefined, Num(0), Num(5)}

\* user objects whose optional fields are present, null, absent or empty
RawPayloads ==
  {[id |-> Num(583231), login |-> Str("octocat"),
    name |-> n, bio |-> b, location |-> l,
    avatar_url |-> Str("https://avatars.githubusercontent.com/octocat"),
    email |-> e, company |-> c, blog |-> g,
    followers |-> k, following |-> k, public_repos |-> k,
    created_at |-> Str("2011-01-25T18:44:36Z"),
    html_url |-> Str("https://github.com/octocat")] :
     n \in TextFieldValues, b \in TextFieldValues, l \in TextFieldValues,
     e \in TextFieldValues, c \in TextFieldValues, g \in TextFieldValues,
     k \in CountFieldValues}

RawResponse(data) ==
  [type |-> "response", status |-> 200, body |-> "raw", sparse |-> FALSE,
   data |-> data]

FetchOutcomes ==
  NetOutcomes \cup {Response(200, "null", FALSE)}
  \cup {RawResponse(data) : data \in RawPayloads}

\* arguments fetchUserData is called with
FetchInputs == {Str("octocat"), Str(""), Str("   "), Num(7), Null}

\* fetchUserData(username) up to its await: fetch(`${baseUrl}/${username}`)
fetchUserDataCall(username) ==
  [FetchIdle EXCEPT !.pc = "fetching", !.username = username, !.netCalls = 1]

(***************************************************************************)
(* ApiService.fetchUserWithRetry(username, maxRetries)                     *)
(*                                                                         *)
(* rt is one call of it:                                                   *)
(*   pc        "idle" | "fetching" (awaiting fetchUserData) | "waiting"    *)
(*             (awaiting the backoff timer) | "returned" | "raised"        *)
(*   attempt   the loop variable                                           *)
(*   lastError the local of that name (undefined until a catch runs)       *)
(*   result    the value returned or thrown                                *)
(*   attempts, netCalls, waits, trace: what the call has done so far - the *)
(*             fetchUserData calls, the fetch() calls, the setTimeout      *)
(*             delays in ms, and the outcomes of the settled fetches       *)
(***************************************************************************)
RetryIdle ==
  [pc |-> "idle", username |-> "", maxRetries |-> 0, attempt |-> 0,
   lastError |-> Undefined, result |-> Undefined,
   attempts |-> 0, netCalls |-> 0, waits |-> <<>>, trace |-> <<>>]

\* the loop condition running one iteration more
RetryLoopCondOffByOne(attempt, maxRetries) == attempt <= maxRetries + 1
\* the for loop's condition
RetryLoopCond(attempt, maxRetries) == attempt <= maxRetries

\* the test with its second disjunct missing
IsNonRetryableNotFoundOnly(error) == includes(error.message, "not found")
\* "Don't retry on certain errors"
IsNonRetryable(error) ==
  includes(error.message, "not found") \/ includes(error.message, "rate limit")

\* a linear delay in place of the exponential one
BackoffDelayLinear(attempt) == 2 * attempt * 1000
\* Math.pow(2, attempt) * 1000
BackoffDelay(attempt) == (2 ^ attempt) * 1000

\* a catch block that keeps the first error
CaughtErrorKeepFirst(lastError, error) == IF lastError = Undefined THEN error ELSE lastError
\* what the catch block stores in lastError
CaughtError(lastError, error) == error

\* the head of the loop with the loop variable at `attempt`: either the body
\* starts (fetchUserData is called, which calls fetch() once) or the loop is
\* left and lastError is thrown
LoopHead(r, attempt) ==
  IF RetryLoopCond(attempt, r.maxRetries)
  THEN [r EXCEPT !.pc = "fetching", !.attempt = attempt,
                 !.attempts = @ + 1, !.netCalls = @ + 1]
  ELSE [r EXCEPT !.pc = "raised", !.attempt = attempt, !.result = r.lastError]

\* fetchUserWithRetry(username, maxRetries) is called
RetryCall(h, n) ==
  /\ rt.pc = "idle"
  /\ rt' = LoopHead([RetryIdle EXCEPT !.username = h, !.maxRetries = n], 1)
  /\ UNCHANGED <<app, dom, pending, destroyed, last, fd, page, anim>>

\* the awaited fetchUserData settles: return, or the catch block
AttemptSettles(o) ==
  /\ rt.pc = "fetching"
  /\ LET res == fetchUserData(rt.username, o)
         r0 == [rt EXCEPT !.trace = Append(@, o)]
     IN IF res.ok
        THEN rt' = [r0 EXCEPT !.pc = "returned", !.result = res.value]
        ELSE LET r1 == [r0 EXCEPT !.lastError = CaughtError(@, res.error)]
             IN IF IsNonRetryable(res.error)
                THEN rt' = [r1 EXCEPT !.pc = "raised", !.result = res.error]
                ELSE IF rt.attempt < rt.maxRetries
                THEN rt' = [r1 EXCEPT !.pc = "waiting",
                                      !.waits = Append(@, BackoffDelay(rt.attempt))]
                ELSE rt' = LoopHead(r1, rt.attempt + 1)
  /\ UNCHANGED <<app, dom, pending, destroyed, last, fd, page, anim>>

\* the setTimeout of the backoff fires: attempt++ and the loop goes round
BackoffElapsed ==
  /\ rt.pc = "waiting"
  /\ rt' = LoopHead(rt, rt.attempt + 1)
  /\ UNCHANGED <<app, dom, pending, destroyed, last, fd, page, anim>>

RetryNext ==
  \/ \E n \in 0..MaxAttempts : RetryCall(usernames[1], n)
  \/ \E o \in NetOutcomes : AttemptSettles(o)
  \/ BackoffElapsed

(***************************************************************************)
(* DomManager and ProfileCardApp                                           *)
(*                                                                         *)
(* app       the instance's fields currentUser and isLoading               *)
(* dom       what the DomManager's elements show: the hidden class of the  *)
(*           three state containers, the error text, the follow button,    *)
(*           the refresh button's transform, the record last displayed     *)
(* pending   the fetchUserData calls whose fetch() has not settled, each   *)
(*           with the method awaiting it: a bag, since fetches settle in   *)
(*           any order and two of them may be alike                        *)
(* destroyed destroy() has been called on the instance                     *)
(* last      the handler that ran in the last step: its name and argument, *)
(*           the fetch() calls it made, the DomManager calls it made, what *)
(*           the fetchUserData call it awaited returned or raised, how     *)
(*           isLoading and the loading panel stood when it called fetch,   *)
(*           whether an error escaped it, and for handleFollow the follow  *)
(*           button as it was before the step and, when the step before    *)
(*           was a handleFollow too, before that one                       *)
(*                                                                         *)
(* A handler runs to its first await in one step (JavaScript runs it to    *)
(* completion on the single event-loop thread); what follows the await     *)
(* runs in the step in which the fetch settles.  A world w carries the     *)
(* state through the calls of one step.                                    *)
(***************************************************************************)
NoResult == [ok |-> FALSE, error |-> Undefined]
NoFetch == [caller |-> "", isLoading |-> FALSE, loadingHidden |-> TRUE]
World ==
  [app |-> app, dom |-> dom, pending |-> pending, net |-> 0, calls |-> <<>>,
   threw |-> FALSE, res |-> NoResult, atFetch |-> NoFetch]

Call(w, method, msg, type) ==
  [w EXCEPT !.calls = Append(@, [m |-> method, msg |-> msg, type |-> type])]

\* template-literal conversion of a value
ToStr(x) ==
  CASE x.t = "string" -> x.s
    [] x.t = "number" -> ToString(x.n)
    [] x.t = "null" -> "null"
    [] OTHER -> "undefined"

\* hideAllStates that leaves the profile panel as it is
hideAllStatesButProfile(d) ==
  [d EXCEPT !.loadingHidden = TRUE, !.errorHidden = TRUE]

\* DomManager.hideAllStates
hideAllStates(d) ==
  [d EXCEPT !.loadingHidden = TRUE, !.errorHidden = TRUE, !.profileHidden = TRUE]

\* DomManager.showLoadingState
showLoadingState(w) ==
  Call([w EXCEPT !.dom = [hideAllStates(w.dom) EXCEPT !.loadingHidden = FALSE]],
       "showLoadingState", "", "")

\* DomManager.showErrorState(message)
showErrorState(w, message) ==
  Call([w EXCEPT !.dom = [hideAllStates(w.dom) EXCEPT !.errorMessage = message,
                                                        !.errorHidden = FALSE]],
       "showErrorState", message, "")

\* showProfileCard without hideAllStates
showProfileCardKeepOthers(w) ==
  Call([w EXCEPT !.dom.profileHidden = FALSE], "showProfileCard", "", "")

\* DomManager.showProfileCard
showProfileCard(w) ==
  Call([w EXCEPT !.dom = [hideAllStates(w.dom) EXCEPT !.profileHidden = FALSE]],
       "showProfileCard", "", "")

\* DomManager.showNotification(message, type)
showNotification(w, message, type) == Call(w, "showNotification", message, type)

\* DomManager.updateFollowButton: isFollowing is Math.random() > 0.5
updateFollowButton(d, isFollowing) ==
  [d EXCEPT !.followText = IF isFollowing THEN "Following" ELSE "Follow",
            !.followClass = isFollowing]

\* DomManager.displayUserData(userData)
displayUserData(w, userData, isFollowing) ==
  Call([w EXCEPT !.dom = updateFollowButton([w.dom EXCEPT !.shown = userData],
                                            isFollowing)],
       "displayUserData", ToStr(userData.username), "")

\* toggleFollow that only ever follows
toggleFollowResultAlways(d) == TRUE

\* DomManager.toggleFollow: the new follow state
toggleFollowResult(d) == ~(d.followText = "Following")
toggleFollow(w) ==
  Call([w EXCEPT !.dom = updateFollowButton(w.dom, toggleFollowResult(w.dom))],
       "toggleFollow", "", "")

\* DomManager.addRefreshButtonLoading / removeRefreshButtonLoading
addRefreshButtonLoading(w) ==
  Call([w EXCEPT !.dom.refreshTransform = "rotate(360deg)"],
       "addRefreshButtonLoading", "", "")
removeRefreshButtonLoading(w) ==
  Call([w EXCEPT !.dom.refreshTransform = "rotate(0deg)"],
       "removeRefreshButtonLoading", "", "")

\* DomManager.showMessageModal(userName, username)
showMessageModal(w, userName, username) ==
  Call(w, "showMessageModal",
       "This would open a message dialog to " \o ToStr(userName)
         \o " (@" \o ToStr(username) \o ")", "")

\* DomManager.cleanup: cancels the animations, removes no listener
cleanup(w) == Call(w, "cleanup", "", "")

\* setLoadingState with the assignment lost
setLoadingStateDropped(w, isLoading) == w
\* ProfileCardApp.setLoadingState(isLoading)
setLoadingState(w, isLoading) == [w EXCEPT !.app.isLoading = isLoading]

\* a fetchUserData(username) call is made: fetch() is called and awaited;
\* atFetch keeps isLoading and the loading panel as they are at the call
IssueFetch(w, caller, username, refresh) ==
  [w EXCEPT !.net = @ + 1,
            !.atFetch = [caller |-> caller, isLoading |-> w.app.isLoading,
                         loadingHidden |-> w.dom.loadingHidden],
            !.pending = @ (+) SetToBag({[caller |-> caller, username |-> username,
                                          refresh |-> refresh]})]

\* handleError that also drops the current record
handleErrorClearsUser(w, error) ==
  LET errorMessage == IF error.message # "" THEN error.message
                      ELSE "An unexpected error occurred. Please try again."
  IN [showNotification(showErrorState(w, errorMessage), errorMessage, "error")
        EXCEPT !.app.currentUser = Null]

\* handleError that starts the load again
handleErrorRetry(w, error) ==
  LET errorMessage == IF error.message # "" THEN error.message
                      ELSE "An unexpected error occurred. Please try again."
  IN IssueFetch(showNotification(showErrorState(w, errorMessage), errorMessage, "error"),
                "loadRandomUser", usernames[1], FALSE)

\* ProfileCardApp.handleError(error)
handleError(w, error) ==
  LET errorMessage == IF error.message # "" THEN error.message
                      ELSE "An unexpected error occurred. Please try again."
  IN showNotification(showErrorState(w, errorMessage), errorMessage, "error")

\* loadRandomUser that calls fetchRandomUser ahead of setLoadingState(true)
\* and showLoadingState()
loadRandomUserFetchFirst(w, u, refresh) ==
  IF w.app.isLoading THEN w
  ELSE showLoadingState(setLoadingState(
         IssueFetch(w, "loadRandomUser", u, refresh), TRUE))

\* ProfileCardApp.loadRandomUser up to its await; u is the handle
\* fetchRandomUser draws, refresh tells that handleRefresh awaits the call
loadRandomUser(w, u, refresh) ==
  IF w.app.isLoading THEN w
  ELSE IssueFetch(showLoadingState(setLoadingState(w, TRUE)),
                  "loadRandomUser", u, refresh)

\* loadUser with the validation ahead of the isLoading guard
loadUserValidateFirst(w, username) ==
  IF ~isValidUsername(username)
  THEN showErrorState(w, "Please enter a valid username")
  ELSE IF w.app.isLoading THEN w
  ELSE IssueFetch(showLoadingState(setLoadingState(w, TRUE)),
                  "loadUser", username.s, FALSE)

\* ProfileCardApp.loadUser(username) up to its await
loadUser(w, username) ==
  IF w.app.isLoading THEN w
  ELSE IF ~isValidUsername(username)
  THEN showErrorState(w, "Please enter a valid username")
  ELSE IssueFetch(showLoadingState(setLoadingState(w, TRUE)),
                  "loadUser", username.s, FALSE)

\* ProfileCardApp.handleRefresh up to its await
handleRefresh(w, u) ==
  IF w.app.isLoading THEN w
  ELSE loadRandomUser(addRefreshButtonLoading(w), u, TRUE)

\* ProfileCardApp.handleRetry up to its await
handleRetry(w, u) == loadRandomUser(w, u, FALSE)

\* ProfileCardApp.refreshCurrentUser up to its await
refreshCurrentUser(w, u) ==
  IF ~Truthy(w.app.currentUser)
  THEN loadRandomUser(w, u, FALSE)
  ELSE IssueFetch(w, "refreshCurrentUser", ToStr(w.app.currentUser.username), FALSE)

\* ProfileCardApp.handleFollow
handleFollow(w) ==
  IF ~Truthy(w.app.currentUser) THEN w
  ELSE LET isNowFollowing == toggleFollowResult(w.dom)
           message == IF isNowFollowing
                      THEN "Following " \o ToStr(w.app.currentUser.name) \o " successfully!"
                      ELSE "Unfollowed " \o ToStr(w.app.currentUser.name) \o " successfully!"
       IN showNotification(toggleFollow(w), message, "success")

\* ProfileCardApp.handleMessage
handleMessage(w) ==
  IF ~Truthy(w.app.currentUser) THEN w
  ELSE showMessageModal(w, w.app.currentUser.name, w.app.currentUser.username)

\* ProfileCardApp.destroy
destroy(w) ==
  [cleanup(w) EXCEPT !.app.currentUser = Null, !.app.isLoading = FALSE]

\* loadContinuation with try/finally and no catch: the error leaves the method
loadContinuationNoCatch(w, res, isFollowing) ==
  LET done ==
        IF res.ok
        THEN showNotification(
               showProfileCard(
                 displayUserData([w EXCEPT !.app.currentUser = res.value],
                                 res.value, isFollowing)),
               "Loaded profile for " \o ToStr(res.value.name), "success")
        ELSE [w EXCEPT !.threw = TRUE]
  IN setLoadingState(done, FALSE)

\* loadContinuation with setLoadingState(false) at the end of try only
loadContinuationNoFinally(w, res, isFollowing) ==
  IF res.ok
  THEN setLoadingState(
         showNotification(
           showProfileCard(
             displayUserData([w EXCEPT !.app.currentUser = res.value],
                             res.value, isFollowing)),
           "Loaded profile for " \o ToStr(res.value.name), "success"),
         FALSE)
  ELSE handleError(w, res.error)

\* what follows `await this.apiService.fetchRandomUser()` / fetchUserData in
\* loadRandomUser and loadUser: the rest of try, catch, finally
loadContinuation(w, res, isFollowing) ==
  LET done ==
        IF res.ok
        THEN showNotification(
               showProfileCard(
                 displayUserData([w EXCEPT !.app.currentUser = res.value],
                                 res.value, isFollowing)),
               "Loaded profile for " \o ToStr(res.value.name), "success")
        ELSE handleError(w, res.error)
  IN setLoadingState(done, FALSE)

\* what follows the await in refreshCurrentUser
refreshContinuation(w, res, isFollowing) ==
  IF res.ok
  THEN showNotification(
         displayUserData([w EXCEPT !.app.currentUser = res.value],
                         res.value, isFollowing),
         "Profile refreshed successfully!", "success")
  ELSE handleError(w, res.error)

(***************************************************************************)
(* The controller as a state machine.                                      *)
(***************************************************************************)
NoOutcome == [type |-> "none"]

\* the follow button's text and its "following" class
FollowButton(d) == [followText |-> d.followText, followClass |-> d.followClass]
NoButton == [followText |-> "", followClass |-> FALSE]

\* a step of the instance ends: the world becomes the state
Commit(w, op, arg, caller, o) ==
  /\ BagCardinality(w.pending) <= MaxInFlight
  /\ app' = w.app
  /\ dom' = w.dom
  /\ pending' = w.pending
  /\ last' = [op |-> op, arg |-> arg, net |-> w.net, calls |-> w.calls,
              caller |-> caller, o |-> o, res |-> w.res, threw |-> w.threw,
              atFetch |-> w.atFetch,
              before |-> IF op = "handleFollow" THEN FollowButton(dom) ELSE NoButton,
              origin |-> IF op = "handleFollow" /\ last.op = "handleFollow"
                         THEN last.before ELSE NoButton]
  /\ UNCHANGED <<rt, fd, page, anim>>

\* the document before the constructor runs
BlankDom ==
  [loadingHidden |-> FALSE, errorHidden |-> TRUE, profileHidden |-> TRUE,
   errorMessage |-> "", followText |-> "Follow", followClass |-> FALSE,
   refreshTransform |-> "", shown |-> Null]

\* new ProfileCardApp(): the fields, then init() = bindEvents(); loadRandomUser()
Constructed(u) ==
  loadRandomUser([app |-> [currentUser |-> Null, isLoading |-> FALSE],
                  dom |-> BlankDom, pending |-> EmptyBag, net |-> 0, calls |-> <<>>,
                  threw |-> FALSE, res |-> NoResult, atFetch |-> NoFetch],
                 u, FALSE)

\* a fresh instance: the fields the constructor sets
NewApp == [currentUser |-> Null, isLoading |-> FALSE]

\* the page before DOMContentLoaded: no instance, no listener on the buttons
NoClick == [button |-> "", nets |-> <<>>, reacted |-> <<>>]
NoPage ==
  [inst |-> <<>>, appInstance |-> 0, dom |-> BlankDom, listeners |-> <<>>,
   click |-> NoClick]

\* an element of the statistics no animateNumber call was made on yet
AnimIdle ==
  [text |-> "0", entry |-> 0, frames |-> {}, target |-> 0, calls |-> 0,
   cancels |-> 0, cleaned |-> FALSE]

\* the state after construction, the handle of the first load drawn from U
InitWith(U) ==
  /\ \E u \in U :
       LET w == Constructed(u)
       IN /\ app = w.app
          /\ dom = w.dom
          /\ pending = w.pending
          /\ last = [op |-> "constructor", arg |-> Undefined, net |-> w.net,
                     calls |-> w.calls, caller |-> "", o |-> NoOutcome,
                     res |-> w.res, atFetch |-> w.atFetch,
                     threw |-> w.threw, before |-> NoButton, origin |-> NoButton]
  /\ destroyed = FALSE
  /\ rt = RetryIdle
  /\ fd = FetchIdle
  /\ page = NoPage
  /\ anim = AnimIdle

Init == InitWith(getRandomUsername)

\* fetchUserWithRetry is studied beside one instance, which stays as constructed
RetryInit == InitWith({usernames[1]})

\* arguments loadUser is called with
LoadUserInputs == {Str("defunkt"), Str(""), Str("   "), Num(7), Null}

\* outcomes of the fetches the controller awaits
AppOutcomes ==
  {Response(200, "json", FALSE), Response(404, "json", FALSE),
   Reject("TypeError", "Failed to fetch")}

HandleRefresh ==
  /\ \E u \in getRandomUsername :
       Commit(handleRefresh(World, u), "handleRefresh", Undefined, "", NoOutcome)
  /\ UNCHANGED destroyed

HandleRetry ==
  /\ \E u \in getRandomUsername :
       Commit(handleRetry(World, u), "handleRetry", Undefined, "", NoOutcome)
  /\ UNCHANGED destroyed

LoadRandomUser ==
  /\ \E u \in getRandomUsername :
       Commit(loadRandomUser(World, u, FALSE), "loadRandomUser", Undefined, "", NoOutcome)
  /\ UNCHANGED destroyed

LoadUser ==
  /\ \E username \in LoadUserInputs :
       Commit(loadUser(World, username), "loadUser", username, "", NoOutcome)
  /\ UNCHANGED destroyed

RefreshCurrentUser ==
  /\ \E u \in getRandomUsername :
       Commit(refreshCurrentUser(World, u), "refreshCurrentUser", Undefined, "", NoOutcome)
  /\ UNCHANGED destroyed

HandleFollow ==
  /\ Commit(handleFollow(World), "handleFollow", Undefined, "", NoOutcome)
  /\ UNCHANGED destroyed

HandleMessage ==
  /\ Commit(handleMessage(World), "handleMessage", Undefined, "", NoOutcome)
  /\ UNCHANGED destroyed

Destroy ==
  /\ Commit(destroy(World), "destroy", Undefined, "", NoOutcome)
  /\ destroyed' = TRUE

\* a pending fetch settles with outcome o and the method awaiting it resumes;
\* handleRefresh, when it awaits that method, resumes after it unless an
\* error came out of the method.  isFollowing
\* is the Math.random() draw of updateFollowButton, made when a record is
\* displayed
Resume(w, task, o, isFollowing) ==
  LET res == fetchUserData(task.username, o)
      w0 == [w EXCEPT !.pending = @ (-) SetToBag({task}), !.res = res]
      w1 == IF task.caller = "refreshCurrentUser"
            THEN refreshContinuation(w0, res, isFollowing)
            ELSE loadContinuation(w0, res, isFollowing)
  IN IF task.refresh /\ ~w1.threw THEN removeRefreshButtonLoading(w1) ELSE w1

FetchSettlesTask(task) ==
  /\ \E o \in AppOutcomes :
     \E isFollowing \in IF fetchUserData(task.username, o).ok THEN BOOLEAN ELSE {FALSE} :
       Commit(Resume(World, task, o, isFollowing), "settle", Str(task.username),
              task.caller, o)
  /\ UNCHANGED destroyed

FetchSettles == \E task \in BagToSet(pending) : FetchSettlesTask(task)

Next ==
  \/ HandleRefresh
  \/ HandleRetry
  \/ LoadRandomUser
  \/ LoadUser
  \/ RefreshCurrentUser
  \/ HandleFollow
  \/ HandleMessage
  \/ Destroy
  \/ FetchSettles

Spec == Init /\ [][Next]_vars

\* the fetch of a load is in flight: the step in which it settles is enabled
LoadPending ==
  \E task \in BagToSet(pending) : task.caller \in {"loadRandomUser", "loadUser"}

\* a step in which the fetch of a load settles
LoadFetchSettles ==
  last'.op = "settle" /\ last'.caller \in {"loadRandomUser", "loadUser"}

\* every fetch of a load settles in the end (the network answers or fails):
\* weak fairness of the settling of loads' fetches, written out
FairSpec ==
  Spec /\ (([]<>(~LoadPending)) \/ ([]<><<LoadFetchSettles>>_vars))

(***************************************************************************)
(* The three panel methods of a DomManager called directly, in any order,  *)
(* on a document whose panels start in any combination; last.calls keeps   *)
(* the calls made so far.                                                  *)
(***************************************************************************)
PanelInit ==
  /\ \E l, e, p \in BOOLEAN :
       dom = [BlankDom EXCEPT !.loadingHidden = l, !.errorHidden = e,
                              !.profileHidden = p]
  /\ app = [currentUser |-> Null, isLoading |-> FALSE]
  /\ pending = EmptyBag
  /\ last = [op |-> "DomManager", arg |-> Undefined, net |-> 0, calls |-> <<>>,
             caller |-> "", o |-> NoOutcome, res |-> NoResult,
             atFetch |-> NoFetch, threw |-> FALSE,
             before |-> NoButton, origin |-> NoButton]
  /\ destroyed = FALSE
  /\ rt = RetryIdle
  /\ fd = FetchIdle
  /\ page = NoPage
  /\ anim = AnimIdle

\* the world of a direct call: the calls so far are kept
PanelWorld == [World EXCEPT !.calls = last.calls]

\* messages showErrorState is called with
PanelMessages == {"User not found. Please try again.", "Please enter a valid username"}

ShowLoadingState ==
  /\ Len(last.calls) < MaxCalls
  /\ Commit(showLoadingState(PanelWorld), "showLoadingState", Undefined, "", NoOutcome)
  /\ UNCHANGED destroyed

ShowErrorState ==
  /\ Len(last.calls) < MaxCalls
  /\ \E message \in PanelMessages :
       Commit(showErrorState(PanelWorld, message), "showErrorState", Str(message),
              "", NoOutcome)
  /\ UNCHANGED destroyed

ShowProfileCard ==
  /\ Len(last.calls) < MaxCalls
  /\ Commit(showProfileCard(PanelWorld), "showProfileCard", Undefined, "", NoOutcome)
  /\ UNCHANGED destroyed

PanelNext == ShowLoadingState \/ ShowErrorState \/ ShowProfileCard

PanelSpec == PanelInit /\ [][PanelNext]_vars

(***************************************************************************)
(* The page: the document with its four buttons, the ProfileCardApp        *)
(* instances made on it by initializeApp, and the global appInstance.      *)
(*                                                                         *)
(* page.inst         the instances in order of construction: the fields    *)
(*                   of each and its fetches in flight                     *)
(* page.appInstance  the index of the instance appInstance refers to, 0    *)
(*                   for null                                              *)
(* page.dom          the document, shared by the DomManagers of all the    *)
(*                   instances (each looks its elements up by id)          *)
(* page.listeners    the click listeners on the buttons in order of        *)
(*                   registration, each named by the instance whose        *)
(*                   callbacks it calls; bindEvents adds one to each of    *)
(*                   the four buttons and nothing removes one              *)
(* page.click        the button of the last click, and per listener the    *)
(*                   fetch() calls its handler made and whether it made a  *)
(*                   fetch() or DomManager call                            *)
(***************************************************************************)
\* the instances initializeApp makes: the first one and its replacement
InstanceIds == {1, 2}

Buttons == {"refreshBtn", "retryBtn", "followBtn", "messageBtn"}

\* instance i at work on the shared document
PageWorld(p, i) ==
  [app |-> p.inst[i].app, dom |-> p.dom, pending |-> p.inst[i].pending,
   net |-> 0, calls |-> <<>>, threw |-> FALSE, res |-> NoResult,
   atFetch |-> NoFetch]

\* its step ends
PageStore(p, i, w) ==
  [p EXCEPT !.inst[i] = [app |-> w.app, pending |-> w.pending], !.dom = w.dom]

\* the callback bindEvents registered on the button
Callback(button, w, u) ==
  CASE button = "refreshBtn" -> handleRefresh(w, u)
    [] button = "retryBtn" -> handleRetry(w, u)
    [] button = "followBtn" -> handleFollow(w)
    [] button = "messageBtn" -> handleMessage(w)

\* a click event is dispatched: the listeners of the button are called in
\* order of registration, from the k-th on; us[i] is the handle instance i
\* draws if it loads
RECURSIVE Dispatch(_, _, _, _)
Dispatch(p, button, us, k) ==
  IF k > Len(p.listeners) THEN p
  ELSE LET i == p.listeners[k]
           w == Callback(button, PageWorld(p, i), us[i])
           p1 == [PageStore(p, i, w) EXCEPT
                    !.click.nets = Append(@, w.net),
                    !.click.reacted = Append(@, w.net > 0 \/ w.calls # <<>>)]
       IN Dispatch(p1, button, us, k + 1)

\* initializeApp(): destroy the current instance if there is one, then
\* new ProfileCardApp(), whose init binds its callbacks and loads
InitializeApp ==
  /\ Len(page.inst) < Cardinality(InstanceIds)
  /\ \E u \in getRandomUsername :
       LET old == page.appInstance
           p0 == IF old # 0 THEN PageStore(page, old, destroy(PageWorld(page, old)))
                 ELSE page
           n == Len(page.inst) + 1
           w == loadRandomUser([app |-> NewApp, dom |-> p0.dom, pending |-> EmptyBag,
                                net |-> 0, calls |-> <<>>, threw |-> FALSE,
                                res |-> NoResult, atFetch |-> NoFetch], u, FALSE)
       IN page' = [p0 EXCEPT !.inst = Append(@, [app |-> w.app, pending |-> w.pending]),
                             !.dom = w.dom,
                             !.listeners = Append(@, n),
                             !.appInstance = n,
                             !.click = NoClick]
  /\ UNCHANGED <<app, dom, pending, destroyed, last, rt, fd, anim>>

\* the user clicks a button
Click ==
  /\ \E button \in Buttons, us \in [1..Len(page.inst) -> getRandomUsername] :
       page' = Dispatch([page EXCEPT !.click = [NoClick EXCEPT !.button = button]],
                        button, us, 1)
  /\ \A i \in 1..Len(page'.inst) : BagCardinality(page'.inst[i].pending) <= MaxInFlight
  /\ UNCHANGED <<app, dom, pending, destroyed, last, rt, fd, anim>>

\* a fetch of instance i settles and the method awaiting it resumes
PageFetchSettles ==
  /\ \E i \in 1..Len(page.inst) :
     \E task \in BagToSet(page.inst[i].pending), o \in AppOutcomes :
     \E isFollowing \in IF fetchUserData(task.username, o).ok THEN BOOLEAN ELSE {FALSE} :
       page' = [PageStore(page, i, Resume(PageWorld(page, i), task, o, isFollowing))
                  EXCEPT !.click = NoClick]
  /\ UNCHANGED <<app, dom, pending, destroyed, last, rt, fd, anim>>

PageNext == InitializeApp \/ Click \/ PageFetchSettles

PageSpec == RetryInit /\ [][PageNext]_vars

(***************************************************************************)
(* DomManager.animateNumber on one element.                                *)
(*                                                                         *)
(* anim.text     the element's textContent                                 *)
(* anim.entry    this.animations.get(element): a frame id, 0 when the map  *)
(*               has no entry for the element                              *)
(* anim.frames   the callbacks requestAnimationFrame holds: the id of the  *)
(*               request, the target of the animation the callback belongs *)
(*               to and the time since that animation's startTime          *)
(* anim.target   the target of the most recent animateNumber call          *)
(* anim.calls    the animateNumber calls made                              *)
(* anim.cancels  the pending requests cancelAnimationFrame has removed     *)
(* anim.cleaned  cleanup() has been called                                 *)
(***************************************************************************)
\* const duration = 1000
duration == 1000

\* the time between two animation frames is a multiple of this
FrameStep == 250
FrameTimes == {FrameStep, 2 * FrameStep}

\* targets animateNumber is called with
Targets == {0, 7, 1500}

\* DomManager.formatNumber(num); toFixed(1) rounds to the nearest tenth
Tenths(n, unit) == (n * 10 + unit \div 2) \div unit
formatNumber(num) ==
  IF num >= 1000000
  THEN ToString(Tenths(num, 1000000) \div 10) \o "." \o
       ToString(Tenths(num, 1000000) % 10) \o "M"
  ELSE IF num >= 1000
  THEN ToString(Tenths(num, 1000) \div 10) \o "." \o
       ToString(Tenths(num, 1000) % 10) \o "K"
  ELSE ToString(num)

\* Math.floor(startNumber + (targetNumber - startNumber) * easeOutQuart) with
\* progress = Math.min(elapsed / duration, 1) and
\* easeOutQuart = 1 - Math.pow(1 - progress, 4); elapsed is a multiple of
\* FrameStep, so the powers are exact
currentNumber(targetNumber, elapsed) ==
  LET steps == duration \div FrameStep
      left == (duration - (IF elapsed < duration THEN elapsed ELSE duration))
                \div FrameStep
      whole == steps * steps * steps * steps
      part == left * left * left * left
  IN targetNumber - (targetNumber * part + whole - 1) \div whole

\* requestAnimationFrame returns an id no pending request has
FreshId(a) ==
  CHOOSE id \in 1..(Cardinality(a.frames) + 2) :
    id # a.entry /\ \A f \in a.frames : f.id # id

\* animateNumber that does not cancel the element's pending frame
CancelExistingSkipped(a) == a

\* if (this.animations.has(element)) cancelAnimationFrame(this.animations.get(element))
CancelExisting(a) ==
  IF a.entry # 0
  THEN [a EXCEPT !.frames = {f \in @ : f.id # a.entry},
                 !.cancels = @ + Cardinality({f \in a.frames : f.id = a.entry})]
  ELSE a

\* DomManager.animateNumber(element, targetNumber)
animateNumber(a, targetNumber) ==
  LET a1 == CancelExisting(a)
      frameId == FreshId(a1)
  IN [a1 EXCEPT !.frames = @ \cup {[id |-> frameId, target |-> targetNumber,
                                     elapsed |-> 0]},
                !.entry = frameId,
                !.target = targetNumber,
                !.calls = @ + 1]

\* the animate callback of request f runs, dt after the time it last saw
animate(a, f, dt) ==
  LET elapsed == IF f.elapsed + dt < duration THEN f.elapsed + dt ELSE duration
      a1 == [a EXCEPT !.frames = @ \ {f},
                      !.text = formatNumber(currentNumber(f.target, elapsed))]
      frameId == FreshId(a1)
  IN IF elapsed < duration
     THEN [a1 EXCEPT !.frames = @ \cup {[id |-> frameId, target |-> f.target,
                                         elapsed |-> elapsed]},
                     !.entry = frameId]
     ELSE [a1 EXCEPT !.text = formatNumber(f.target), !.entry = 0]

\* DomManager.cleanup() as far as the element goes
animCleanup(a) ==
  [a EXCEPT !.frames = {f \in @ : f.id # a.entry}, !.entry = 0, !.cleaned = TRUE]

AnimateNumber ==
  /\ anim.calls < MaxAnimations
  /\ \E targetNumber \in Targets : anim' = animateNumber(anim, targetNumber)
  /\ UNCHANGED <<app, dom, pending, destroyed, last, rt, fd, page>>

AnimationFrame ==
  /\ \E f \in anim.frames, dt \in FrameTimes : anim' = animate(anim, f, dt)
  /\ UNCHANGED <<app, dom, pending, destroyed, last, rt, fd, page>>

AnimCleanup ==
  /\ ~anim.cleaned
  /\ anim' = animCleanup(anim)
  /\ UNCHANGED <<app, dom, pending, destroyed, last, rt, fd, page>>

AnimNext == AnimateNumber \/ AnimationFrame \/ AnimCleanup

AnimSpec == RetryInit /\ [][AnimNext]_vars

\* the browser runs every animation frame callback it holds
AnimFairSpec == AnimSpec /\ WF_vars(AnimationFrame)

RetrySpec == RetryInit /\ [][RetryNext]_vars

\* every awaited fetch settles and every backoff timer fires
RetryFairSpec == RetrySpec /\ WF_vars(RetryNext)

\* fetchUserData(username) is called
FetchCall ==
  /\ fd.pc = "idle"
  /\ \E username \in FetchInputs : fd' = fetchUserDataCall(username)
  /\ UNCHANGED <<app, dom, pending, destroyed, last, rt, page, anim>>

\* its fetch() settles: the rest of try, or catch
FetchReturns ==
  /\ fd.pc = "fetching"
  /\ \E o \in FetchOutcomes :
       LET res == fetchUserData(ToStr(fd.username), o)
       IN fd' = [fd EXCEPT !.pc = IF res.ok THEN "returned" ELSE "raised",
                           !.o = o,
                           !.result = IF res.ok THEN res.value ELSE res.error]
  /\ UNCHANGED <<app, dom, pending, destroyed, last, rt, page, anim>>

FetchNext == FetchCall \/ FetchReturns

\* fetchUserData is studied beside one instance, which stays as constructed
FetchSpec == RetryInit /\ [][FetchNext]_vars

(***************************************************************************)
(* Properties of the controller (specification Spec).                      *)
(***************************************************************************)
InFlight == BagCardinality(pending)

LoadRequests == {"loadRandomUser", "loadUser", "handleRefresh", "handleRetry"}

\* C1: in every reachable state of an instance that was not destroyed, under
\* any interleaving of handleRefresh, handleRetry, loadRandomUser, loadUser and
\* refreshCurrentUser with fetch completions, at most one fetch is in flight.
C1_AtMostOneFetchInFlight == ~destroyed => InFlight <= 1

\* C2: a handleRefresh makes one fetch when the instance is not loading and
\* none when it is; so of two handleRefresh calls in immediate succession, the
\* first of which started a fetch, the second starts none: one DataSource
\* invocation in all.
C2_RefreshTwiceOneFetch ==
  [][last'.op = "handleRefresh" =>
       /\ last'.net = (IF app.isLoading THEN 0 ELSE 1)
       /\ (last.op = "handleRefresh" /\ last.net = 1) =>
            (last'.net = 0 /\ pending' = pending)]_vars

\* a second handleRefresh was ignored while the fetch of a first one is the
\* only fetch in flight
C2_Witness ==
  /\ last.op = "handleRefresh"
  /\ last.net = 0
  /\ InFlight = 1
  /\ \A task \in BagToSet(pending) : task.refresh

\* C3: while isLoading is true, loadRandomUser, loadUser (whatever its
\* argument), handleRefresh and handleRetry make no fetch and no DomManager
\* call, and leave currentUser, isLoading, the display and the fetches in
\* flight as they were.
C3_LoadingIsNoOp ==
  [][(app.isLoading /\ last'.op \in LoadRequests) =>
       /\ last'.net = 0
       /\ last'.calls = <<>>
       /\ app' = app
       /\ dom' = dom
       /\ pending' = pending]_vars

\* loadUser was called with an invalid handle during a load and did nothing
C3_Witness ==
  /\ last.op = "loadUser"
  /\ ~isValidUsername(last.arg)
  /\ last.calls = <<>>
  /\ app.isLoading
  /\ InFlight = 1

\* C4: a fetch that settles right after destroy() - so one that was in flight
\* when the instance was destroyed - changes neither currentUser nor isLoading
\* and makes no DomManager call.
C4_LateResolutionIgnored ==
  [][(last.op = "destroy" /\ last'.op = "settle") =>
       (app' = app /\ dom' = dom /\ last'.calls = <<>>)]_vars

(***************************************************************************)
(* Properties of fetchUserWithRetry and fetchUserData (RetrySpec).         *)
(***************************************************************************)
\* the result of the i-th settled attempt
AttemptResult(i) == fetchUserData(rt.username, rt.trace[i])

Settled == Len(rt.trace)

\* the kind of a failure by its cause: the HTTP status or the transport
FailureKind(o) ==
  CASE o.type = "reject" -> "NetworkUnreachable"
    [] o.type = "response" /\ o.status = 404 -> "NotFound"
    [] o.type = "response" /\ o.status = 403 -> "RateLimited"
    [] o.type = "response" /\ o.status \in 500..599 -> "ServerError"
    [] o.type = "response" /\ ~(o.status \in 200..299) -> "Unknown"
    [] OTHER -> "none"

\* C5: with maxRetries >= 1 there are never more than maxRetries calls of
\* fetchUserData, each with one fetch(); a successful attempt is the last one,
\* and the call returns its record.
C5_AtMostNAttempts ==
  rt.maxRetries >= 1 =>
    /\ rt.attempts <= rt.maxRetries
    /\ rt.netCalls = rt.attempts
    /\ rt.attempts = Settled + (IF rt.pc = "fetching" THEN 1 ELSE 0)
    /\ \A i \in 1..Settled :
         AttemptResult(i).ok =>
           /\ i = Settled
           /\ rt.pc = "returned"
           /\ rt.result = AttemptResult(i).value
    /\ rt.pc = "returned" => (Settled >= 1 /\ AttemptResult(Settled).ok)

\* the third attempt succeeded after two failures
C5_Witness ==
  /\ rt.pc = "returned"
  /\ rt.maxRetries >= 3
  /\ rt.attempts = 3
  /\ rt.result.t = "object"

\* C6: a NotFound or RateLimited failure ends the call at once - it is raised,
\* with no wait and no attempt after it - and a failure that is followed by a
\* wait or an attempt is a ServerError, NetworkUnreachable or Unknown one.
C6_RetryOnlyRetryable ==
  \A i \in 1..Settled :
    LET kind == FailureKind(rt.trace[i])
        followed == i < Settled \/ rt.pc \in {"waiting", "fetching"}
    IN kind # "none" =>
         /\ kind \in {"NotFound", "RateLimited"} =>
              /\ i = Settled
              /\ rt.pc = "raised"
              /\ rt.result = AttemptResult(i).error
              /\ rt.attempts = i
              /\ Len(rt.waits) = i - 1
         /\ followed => kind \in {"ServerError", "NetworkUnreachable", "Unknown"}

\* a rate-limit answer to the second attempt was raised without a third one
C6_Witness ==
  /\ rt.pc = "raised"
  /\ rt.maxRetries >= 3
  /\ Settled = 2
  /\ FailureKind(rt.trace[2]) = "RateLimited"
  /\ Len(rt.waits) = 1

RECURSIVE TwoToThe(_)
TwoToThe(k) == IF k = 0 THEN 1 ELSE 2 * TwoToThe(k - 1)

RECURSIVE SumSeq(_)
SumSeq(seq) == IF seq = <<>> THEN 0 ELSE Head(seq) + SumSeq(Tail(seq))

\* 2^1 + ... + 2^m
RECURSIVE SumOfPowers(_)
SumOfPowers(m) == IF m <= 0 THEN 0 ELSE TwoToThe(m) + SumOfPowers(m - 1)

\* every settled attempt failed with a failure that is retried
AllFailedRetryable ==
  \A i \in 1..Settled :
    FailureKind(rt.trace[i]) \in {"ServerError", "NetworkUnreachable", "Unknown"}

\* C7: the k-th wait, between attempt k and attempt k+1, is 2^k seconds; and
\* when all maxRetries attempts have failed with a retryable kind there have
\* been maxRetries - 1 waits, none after the last attempt, 2^1 + ... +
\* 2^(maxRetries-1) seconds in all.
C7_BackoffDelays ==
  /\ \A k \in 1..Len(rt.waits) : rt.waits[k] = TwoToThe(k) * 1000
  /\ Len(rt.waits) <= Settled
  /\ (rt.maxRetries >= 1 /\ Settled = rt.maxRetries /\ AllFailedRetryable) =>
       /\ rt.pc = "raised"
       /\ Len(rt.waits) = rt.maxRetries - 1
       /\ SumSeq(rt.waits) = SumOfPowers(rt.maxRetries - 1) * 1000

\* four attempts failed with retryable kinds: waits of 2, 4 and 8 seconds
C7_Witness ==
  /\ rt.pc = "raised"
  /\ rt.maxRetries = 4
  /\ Settled = 4
  /\ AllFailedRetryable
  /\ rt.waits = <<2000, 4000, 8000>>

RetryDone == rt.pc \in {"returned", "raised"}

\* C8: when maxRetries (>= 1) attempts have failed the call raises the error
\* of the last attempt; and every call with maxRetries >= 1 ends, returning a
\* record or raising an error.
C8_RaisesLastError ==
  /\ [](rt.maxRetries >= 1 =>
          /\ (Settled = rt.maxRetries /\ ~AttemptResult(Settled).ok) =>
               (rt.pc = "raised" /\ rt.result = AttemptResult(Settled).error)
          /\ rt.pc = "returned" => rt.result.t = "object"
          /\ rt.pc = "raised" => rt.result = AttemptResult(Settled).error)
  /\ [](rt.maxRetries >= 1 => <>RetryDone)

\* three attempts failed, the first and the last with different errors
C8_Witness ==
  /\ rt.pc = "raised"
  /\ rt.maxRetries = 3
  /\ Settled = 3
  /\ AttemptResult(1).error # AttemptResult(3).error
  /\ rt.result = AttemptResult(3).error

\* the message the classification of the statuses gives a non-2xx status
StatusMessage(status) ==
  CASE status = 404 -> "User not found. Please try again."
    [] status = 403 -> "API rate limit exceeded. Please try again later."
    [] status \in 500..599 -> "Server error. Please try again later."
    [] OTHER -> "HTTP error! status: " \o ToString(status)

\* C9: the error fetchUserData raises for a non-2xx status is the one of the
\* status's kind: NotFound for 404, RateLimited for 403, ServerError for every
\* status in 500..599, Unknown for the others.
C9_StatusClassification ==
  (Settled >= 1 /\ rt.trace[Settled].type = "response"
     /\ ~ResponseOk(rt.trace[Settled].status)) =>
    rt.lastError = Error(StatusMessage(rt.trace[Settled].status))

\* C10: whatever error the transport throws, fetchUserData raises the
\* NetworkUnreachable error with its fixed message.
C10_TransportIsNetworkUnreachable ==
  (Settled >= 1 /\ rt.trace[Settled].type = "reject") =>
    rt.lastError = Error("Network error. Please check your internet connection.")

(***************************************************************************)
(* Properties of fetchUserData and processUserData (FetchSpec).            *)
(***************************************************************************)
\* a handle that is no string, or empty, or made of spaces only
InvalidHandle(x) ==
  \/ x.t # "string"
  \/ \A i \in 1..Len(x.s) : SubSeq(x.s, i, i) = " "

\* C11: fetchUserData called with a handle that is empty, whitespace-only or
\* no string makes no fetch() - the network-call count stays 0 - and raises.
C11_InvalidHandleNoFetch ==
  (fd.pc # "idle" /\ InvalidHandle(fd.username)) =>
    (fd.netCalls = 0 /\ fd.pc = "raised")

(***************************************************************************)
(* Properties of the controller's load operations (Spec).                  *)
(***************************************************************************)
\* the DomManager calls of a step, by method and by notification type
CallsOf(calls, m) == {i \in 1..Len(calls) : calls[i].m = m}
ErrorNotifications(calls) ==
  {i \in 1..Len(calls) : calls[i].m = "showNotification" /\ calls[i].type = "error"}
SuccessNotifications(calls) ==
  {i \in 1..Len(calls) : calls[i].m = "showNotification" /\ calls[i].type = "success"}

\* exactly the error panel / the profile panel is visible
FailedShown(d) == ~d.errorHidden /\ d.loadingHidden /\ d.profileHidden
LoadedShown(d) == ~d.profileHidden /\ d.loadingHidden /\ d.errorHidden

\* C12: loadUser called with an empty or invalid handle while isLoading is
\* false makes no fetch and no showLoadingState call, leaves isLoading false,
\* and ends with the error panel alone visible, showing the validation message.
C12_InvalidHandleShortCircuits ==
  [][(last'.op = "loadUser" /\ ~app.isLoading /\ InvalidHandle(last'.arg)) =>
       /\ last'.net = 0
       /\ pending' = pending
       /\ CallsOf(last'.calls, "showLoadingState") = {}
       /\ ~app'.isLoading
       /\ FailedShown(dom')
       /\ dom'.errorMessage = "Please enter a valid username"]_vars

\* loadUser was called with a whitespace-only handle while nothing was loading
C12_Witness ==
  /\ last.op = "loadUser"
  /\ last.arg = Str("   ")
  /\ last.net = 0
  /\ CallsOf(last.calls, "showErrorState") # {}
  /\ ~app.isLoading
  /\ FailedShown(dom)

\* the last step was a fetch settling with a failure / with a record
SettleFailed(l) == l.op = "settle" /\ ~l.res.ok
SettleSucceeded(l) == l.op = "settle" /\ l.res.ok

\* the calls show one error panel and one error notification, same message
OneErrorPanelOneNotification(calls) ==
  /\ Cardinality(CallsOf(calls, "showErrorState")) = 1
  /\ Cardinality(ErrorNotifications(calls)) = 1
  /\ \A i \in CallsOf(calls, "showErrorState"), j \in ErrorNotifications(calls) :
       calls[i].msg = calls[j].msg

\* C13: every failure of a load operation - a fetch of loadRandomUser,
\* loadUser or refreshCurrentUser settling with a failure, or loadUser
\* rejecting an invalid handle - makes exactly one showErrorState call and
\* exactly one error notification, both with the same message.
C13_FailureShowsPanelAndNotification ==
  [][(\/ SettleFailed(last')
      \/ last'.op = "loadUser" /\ ~app.isLoading /\ InvalidHandle(last'.arg)) =>
       OneErrorPanelOneNotification(last'.calls)]_vars

\* the message handleError shows for the error of a failed settle
SettleErrorMessage(l) ==
  LET message == l.res.error.message
  IN IF message # "" THEN message
     ELSE "An unexpected error occurred. Please try again."

\* C14: when the fetch of loadRandomUser, loadUser or refreshCurrentUser (also
\* under handleRefresh and handleRetry) settles with an error, no error leaves
\* the operation, the error panel alone is visible with the error's non-empty
\* message, and a load that had set isLoading has cleared it.
C14_NoErrorEscapes ==
  [][SettleFailed(last') =>
       /\ ~last'.threw
       /\ FailedShown(dom')
       /\ dom'.errorMessage = SettleErrorMessage(last')
       /\ dom'.errorMessage # ""
       /\ (last'.caller \in {"loadRandomUser", "loadUser"} => ~app'.isLoading)]_vars

\* the fetch of a handleRefresh failed: the load caught the error and
\* handleRefresh went on to reset its button
C14_Witness ==
  /\ SettleFailed(last)
  /\ last.caller = "loadRandomUser"
  /\ last.o = Response(404, "json", FALSE)
  /\ CallsOf(last.calls, "removeRefreshButtonLoading") # {}
  /\ ~last.threw
  /\ FailedShown(dom)
  /\ dom.errorMessage = "User not found. Please try again."

(***************************************************************************)
(* Outcomes of fetchUserData and records of processUserData (FetchSpec).   *)
(***************************************************************************)
\* the messages of the five error kinds
ClassifiedMessages ==
  {"User not found. Please try again.",
   "API rate limit exceeded. Please try again later.",
   "Server error. Please try again later.",
   "Network error. Please check your internet connection."}
    \cup {"HTTP error! status: " \o ToString(status) : status \in ErrorStatuses}

NonEmptyString(x) == x.t = "string" /\ x.s # ""
NonNegative(x) == x.t = "number" /\ x.n >= 0

\* a record with its handle, its texts and its counts in place
FullRecord(r) ==
  /\ r.t = "object"
  /\ NonEmptyString(r.username)
  /\ NonEmptyString(r.name) /\ NonEmptyString(r.bio) /\ NonEmptyString(r.location)
  /\ NonNegative(r.followers) /\ NonNegative(r.following) /\ NonNegative(r.publicRepos)

\* C15: fetchUserData for a valid handle either returns a record with a
\* non-empty handle, its texts filled and non-negative counts, or raises an
\* Error whose message is one of the five error kinds' messages.
C15_RecordOrClassifiedError ==
  (fd.pc \in {"returned", "raised"} /\ ~InvalidHandle(fd.username)) =>
    \/ fd.pc = "returned" /\ FullRecord(fd.result)
    \/ /\ fd.pc = "raised"
       /\ fd.result.name = "Error"
       /\ fd.result.message \in ClassifiedMessages

\* a field of the raw payload that is null, absent or empty
Missing(x) == x \in {Null, Undefined, Str("")}
Fallback(x, d) == IF Missing(x) THEN d ELSE x

\* C16: for every raw payload the record has, for each missing (null, absent
\* or empty) field, the fallback - name: the login, bio: "No bio available",
\* location: "Location not specified", counts: 0, email/company/blog: null -
\* and the field's own value otherwise; email, company and blog are null or a
\* non-empty string.
C16_FallbacksForMissingFields ==
  (fd.pc = "returned" /\ fd.o.body = "raw") =>
    LET data == fd.o.data
        r == fd.result
    IN /\ r.name = Fallback(data.name, data.login)
       /\ r.bio = Fallback(data.bio, Str("No bio available"))
       /\ r.location = Fallback(data.location, Str("Location not specified"))
       /\ r.followers = Fallback(data.followers, Num(0))
       /\ r.following = Fallback(data.following, Num(0))
       /\ r.publicRepos = Fallback(data.public_repos, Num(0))
       /\ r.email = Fallback(data.email, Null)
       /\ r.company = Fallback(data.company, Null)
       /\ r.blog = Fallback(data.blog, Null)
       /\ \A x \in {r.email, r.company, r.blog} : x = Null \/ NonEmptyString(x)

\* a payload with an empty email, an absent bio, a null name and null counts
\* was processed
C16_Witness ==
  /\ fd.pc = "returned"
  /\ fd.o.body = "raw"
  /\ fd.o.data.email = Str("")
  /\ fd.o.data.bio = Undefined
  /\ fd.o.data.name = Null
  /\ fd.o.data.followers = Null
  /\ fd.result.email = Null
  /\ fd.result.bio = Str("No bio available")
  /\ fd.result.name = fd.o.data.login

(***************************************************************************)
(* Properties of the follow button and of the load transitions (Spec).     *)
(***************************************************************************)
\* C17: of two consecutive handleFollow calls on an instance with a current
\* record, the second leaves the follow button (text and "following" class)
\* as it was before the first, and each of the two makes exactly one
\* showNotification call.
C17_ToggleTwiceRestores ==
  [][(last.op = "handleFollow" /\ last'.op = "handleFollow"
        /\ Truthy(app.currentUser)) =>
       /\ FollowButton(dom') = last.before
       /\ FollowButton(dom) # last.before
       /\ Cardinality(CallsOf(last.calls, "showNotification")) = 1
       /\ Cardinality(CallsOf(last'.calls, "showNotification")) = 1]_vars

\* handleFollow ran twice in a row on a followed record: the button went to
\* "Follow" and came back to "Following" with its class
C17_Witness ==
  /\ last.op = "handleFollow"
  /\ Truthy(app.currentUser)
  /\ last.origin = [followText |-> "Following", followClass |-> TRUE]
  /\ last.before = [followText |-> "Follow", followClass |-> FALSE]
  /\ FollowButton(dom) = last.origin
  /\ SuccessNotifications(last.calls) # {}

\* C18: when the fetch of a loadRandomUser or loadUser settles with a record
\* while isLoading is true, the record becomes currentUser, isLoading becomes
\* false, the profile panel alone is visible and displays that record, and
\* exactly one notification, a success notification, is made.
C18_SuccessEntersLoaded ==
  [][(SettleSucceeded(last') /\ last'.caller \in {"loadRandomUser", "loadUser"}
        /\ app.isLoading) =>
       /\ app'.currentUser = last'.res.value
       /\ ~app'.isLoading
       /\ LoadedShown(dom')
       /\ dom'.shown = app'.currentUser
       /\ Cardinality(SuccessNotifications(last'.calls)) = 1
       /\ Cardinality(CallsOf(last'.calls, "showNotification")) = 1]_vars

\* the fetch of a loadUser("defunkt") on a live instance has just succeeded
C18_Witness ==
  /\ ~destroyed
  /\ SettleSucceeded(last)
  /\ last.caller = "loadUser"
  /\ last.arg = Str("defunkt")
  /\ ~app.isLoading
  /\ Truthy(app.currentUser)
  /\ app.currentUser.username = Str("defunkt")
  /\ dom.shown = app.currentUser
  /\ LoadedShown(dom)

\* C19: refreshCurrentUser with a current record acts as loadUser of that
\* handle does - while isLoading is true it does nothing; otherwise it sets
\* isLoading, shows the loading panel and makes one fetch, and when that
\* fetch succeeds the profile panel alone is visible - and without a current
\* record it acts as loadRandomUser does.
C19_RefreshIsFreshLoad ==
  [][/\ (last'.op = "refreshCurrentUser" /\ Truthy(app.currentUser)) =>
          IF app.isLoading
          THEN /\ last'.net = 0
               /\ last'.calls = <<>>
               /\ app' = app /\ dom' = dom /\ pending' = pending
          ELSE /\ last'.net = 1
               /\ app'.isLoading
               /\ CallsOf(last'.calls, "showLoadingState") # {}
               /\ ~dom'.loadingHidden
     /\ (SettleSucceeded(last') /\ last'.caller = "refreshCurrentUser") =>
          LoadedShown(dom')
     /\ (last'.op = "refreshCurrentUser" /\ ~Truthy(app.currentUser)) =>
          \E u \in getRandomUsername :
            LET w == loadRandomUser(World, u, FALSE)
            IN /\ app' = w.app /\ dom' = w.dom /\ pending' = w.pending
               /\ last'.net = w.net /\ last'.calls = w.calls]_vars

\* a load request that passes the isLoading guard and, for loadUser, the
\* validation
Accepted(l) ==
  /\ l.op \in {"loadRandomUser", "loadUser", "handleRefresh"}
  /\ ~app.isLoading
  /\ l.op = "loadUser" => ~InvalidHandle(l.arg)

\* C20: an accepted loadRandomUser, loadUser or handleRefresh makes exactly
\* one fetch() call, and the step in which a fetch settles - with a record or
\* with an error - makes none: the settled fetch leaves the fetches in flight
\* and nothing takes its place.
C20_OneNetworkCallPerLoad ==
  [][/\ Accepted(last') =>
          /\ last'.net = 1
          /\ BagCardinality(pending') = BagCardinality(pending) + 1
     /\ last'.op = "settle" =>
          /\ last'.net = 0
          /\ BagCardinality(pending') = BagCardinality(pending) - 1]_vars

\* the one fetch of a load failed on the network and nothing is in flight
C20_Witness ==
  /\ ~destroyed
  /\ SettleFailed(last)
  /\ last.caller \in {"loadRandomUser", "loadUser"}
  /\ last.o = Reject("TypeError", "Failed to fetch")
  /\ last.net = 0
  /\ pending = EmptyBag
  /\ ~app.isLoading
  /\ FailedShown(dom)

(***************************************************************************)
(* Properties of the load life cycle (Spec).                               *)
(***************************************************************************)
\* the fetch in flight is the one the constructor's init or a handleRetry
\* has just made
BootstrapOrRetryFetch ==
  /\ last.op \in {"constructor", "handleRetry"}
  /\ last.net = 1
  /\ BagCardinality(pending) = 1

\* C21: when the fetch made by init or by handleRetry fails with a retryable
\* error (here the network error), the failure is followed by another
\* attempt: the step in which it settles makes a new fetch() call and does
\* not show the error panel.
C21_BootstrapAndRetryReattempt ==
  [][(BootstrapOrRetryFetch /\ SettleFailed(last')
        /\ last'.o = Reject("TypeError", "Failed to fetch")) =>
       /\ last'.net = 1
       /\ pending' # EmptyBag
       /\ ~FailedShown(dom')]_vars

LoadCallers == {"loadRandomUser", "loadUser"}

Loaded == Truthy(app.currentUser) /\ ~app.isLoading /\ LoadedShown(dom)

\* C24: handleFollow and handleMessage act only when the instance is Loaded -
\* then handleFollow flips the follow button and makes one notification and
\* handleMessage makes its showMessageModal call; otherwise they make no
\* DomManager call and change nothing - and handleMessage never makes a
\* fetch, nor changes currentUser, isLoading, the display or the fetches in
\* flight.
C24_FollowAndMessageOnlyWhenLoaded ==
  [][/\ (last'.op = "handleFollow" /\ Loaded) =>
          /\ FollowButton(dom') # FollowButton(dom)
          /\ Cardinality(CallsOf(last'.calls, "showNotification")) = 1
     /\ (last'.op = "handleMessage" /\ Loaded) =>
          Cardinality(CallsOf(last'.calls, "showMessageModal")) = 1
     /\ (last'.op \in {"handleFollow", "handleMessage"} /\ ~Loaded) =>
          /\ last'.calls = <<>>
          /\ app' = app /\ dom' = dom /\ pending' = pending
     /\ last'.op = "handleMessage" =>
          /\ last'.net = 0
          /\ app' = app /\ dom' = dom /\ pending' = pending]_vars

(***************************************************************************)
(* Properties of the DomManager panels (PanelSpec).                        *)
(***************************************************************************)
\* the panels that are visible
VisiblePanels(d) ==
  {x \in {"showLoadingState", "showErrorState", "showProfileCard"} :
     \/ x = "showLoadingState" /\ ~d.loadingHidden
     \/ x = "showErrorState" /\ ~d.errorHidden
     \/ x = "showProfileCard" /\ ~d.profileHidden}

\* C25: after one or more showLoadingState, showErrorState and
\* showProfileCard calls, whatever the panels were before, exactly one panel
\* is visible: the one of the most recent call.
C25_ExactlyOnePanelVisible ==
  last.calls # <<>> =>
    VisiblePanels(dom) = {last.calls[Len(last.calls)].m}

\* the profile panel was shown, then the error panel: the error panel alone
\* is visible
C25_Witness ==
  /\ Len(last.calls) = 2
  /\ last.calls[1].m = "showProfileCard"
  /\ last.calls[2].m = "showErrorState"
  /\ VisiblePanels(dom) = {"showErrorState"}
  /\ dom.errorMessage = "User not found. Please try again."

(***************************************************************************)
(* Progress of a load (FairSpec).                                          *)
(***************************************************************************)
\* C26: provided the fetches of loads settle, a state in which isLoading is
\* true is followed by one in which it is false; and the step in which the
\* fetch of a load settles leaves isLoading false and the profile panel or
\* the error panel as the one visible panel, so that the loading panel is
\* hidden and the next load request passes the guard.
C26_LoadingEnds ==
  /\ app.isLoading ~> ~app.isLoading
  /\ [][(last'.op = "settle" /\ last'.caller \in LoadCallers) =>
          /\ ~app'.isLoading
          /\ LoadedShown(dom') \/ FailedShown(dom')]_vars

\* a load requested after an earlier load had failed was accepted
C26_Witness ==
  /\ ~destroyed
  /\ last.op \in LoadRequests
  /\ last.net = 1
  /\ app.isLoading
  /\ dom.errorMessage # ""
  /\ ~dom.loadingHidden

(***************************************************************************)
(* Properties of the page with a replaced instance (PageSpec).             *)
(***************************************************************************)
\* initializeApp has replaced an instance, and a button was just clicked
ClickAfterReplacement ==
  Len(page.inst) = 2 /\ page.appInstance = 2 /\ page.click.button # ""

\* C27: once initializeApp has replaced an instance, a click on a button is
\* handled by the new instance only - the listener of the destroyed instance
\* makes no fetch() and no DomManager call - so a click on the refresh button
\* makes at most one fetch() call in all, and exactly one when the new
\* instance is not loading.
C27_DestroyedInstanceIgnoresClicks ==
  ClickAfterReplacement =>
    /\ \A k \in 1..Len(page.listeners) :
         page.listeners[k] # page.appInstance => ~page.click.reacted[k]
    /\ page.click.button = "refreshBtn" => SumSeq(page.click.nets) <= 1

(***************************************************************************)
(* The follow button after a load (Spec).                                  *)
(***************************************************************************)
\* C28: after every fetch that settles with a record, the follow button
\* shows "Follow" without the "following" class - so that two runs of the
\* same load with the same fetch result show the same button.
C28_InitialFollowStateIsFalse ==
  [][SettleSucceeded(last') =>
       FollowButton(dom') = [followText |-> "Follow", followClass |-> FALSE]]_vars

(***************************************************************************)
(* Properties of animateNumber (AnimFairSpec).                             *)
(***************************************************************************)
\* C29: unless cleanup() is called, the element ends up showing the target
\* of the most recent animateNumber call, formatted, and keeps showing it;
\* and at any time the only animation frame pending for the element belongs
\* to the most recent call - the frame of an earlier call was cancelled - so
\* no earlier animation writes after a later one has started.
C29_ShowsMostRecentTarget ==
  /\ <>[](\/ anim.cleaned
          \/ anim.calls = 0
          \/ anim.text = formatNumber(anim.target) /\ anim.frames = {})
  /\ [](\A f \in anim.frames : f.target = anim.target /\ f.id = anim.entry)
  /\ [](Cardinality(anim.frames) <= 1)

\* a second animateNumber cancelled the running animation towards 7, and
\* the element now shows its own target, 1500, with nothing pending
C29_Witness ==
  /\ ~anim.cleaned
  /\ anim.calls = 2
  /\ anim.cancels = 1
  /\ anim.target = 1500
  /\ anim.text = "1.5K"
  /\ anim.frames = {}
  /\ anim.entry = 0

====
